---- MODULE Spec2Model ----
(***************************************************************************)
(* Model of the single-entry BibTeX parser of thomjur/verifybibtex         *)
(* (package parser, src/parser/ents.go).                                   *)
(*                                                                         *)
(* A Go string is a sequence of one-character strings, e.g. the text "@a{" *)
(* is <<"@", "a", "{">>.  The texts considered are ASCII, so byte offsets  *)
(* and character offsets agree.  Offsets are 0-based as in Go; Slice(s, lo,*)
(* hi) is the Go expression s[lo:hi].                                      *)
(***************************************************************************)
EXTENDS Integers, Sequences, FiniteSets, TLC

VARIABLES
    pc,         \* position of the running call
    given,      \* how the argument text was composed (its parts)
    raw,        \* the argument of the running call (RawEntry for ParseNewEntry)
    cleanEntry, \* local cleanEntry of ParseNewEntry
    newEntry,   \* the Entry under construction in ParseNewEntry
    err,        \* local err of ParseNewEntry
    debugLog,   \* the errors printed by debugLog.Println, in order
    rets        \* the values returned so far, in call order

vars == <<pc, given, raw, cleanEntry, newEntry, err, debugLog, rets>>

-----------------------------------------------------------------------------
(* Characters                                                              *)

LowerLetters == <<"a","b","c","d","e","f","g","h","i","j","k","l","m",
                  "n","o","p","q","r","s","t","u","v","w","x","y","z">>
UpperLetters == <<"A","B","C","D","E","F","G","H","I","J","K","L","M",
                  "N","O","P","Q","R","S","T","U","V","W","X","Y","Z">>
Digits == {"0","1","2","3","4","5","6","7","8","9"}

Range(f) == {f[i] : i \in DOMAIN f}

\* The class [a-zA-Z]
Letters == Range(LowerLetters) \cup Range(UpperLetters)

\* The regexp class \s of Go (RE2): [\t\n\f\r ]
SpaceChars == {" ", "\t", "\n", "\r", "\f"}

\* The vertical tab U+000B: the string holds that one character, for which
\* TLA+ has no escape.  It stands for the white space of unicode.IsSpace
\* that is not in \s (U+000B, U+0085, U+00A0, ...).
VerticalTab == ""

\* unicode.IsSpace, by which strings.TrimSpace trims
IsSpace(c) == c \in SpaceChars \cup {VerticalTab}

\* strings.ToLower on one character
ToLowerChar(c) ==
    IF c \in Range(UpperLetters)
    THEN LowerLetters[CHOOSE i \in DOMAIN UpperLetters : UpperLetters[i] = c]
    ELSE c

-----------------------------------------------------------------------------
(* Strings                                                                 *)

\* F at v, with v evaluated once (a Go call evaluates its argument once)
With(v, F(_)) == CHOOSE r \in {F(x) : x \in {v}} : TRUE

\* strings.ToLower
ToLower(s0) == With(s0, LAMBDA s : [i \in 1..Len(s) |-> ToLowerChar(s[i])])

\* Go s[lo:hi] for 0 <= lo <= hi <= len(s)
Slice(s, lo, hi) == SubSeq(s, lo + 1, hi)

\* strings.TrimSpace
TrimSpace(s0) ==
    With(s0, LAMBDA s :
        LET keep == {i \in 1..Len(s) : ~IsSpace(s[i])}
        IN  IF keep = {} THEN <<>>
            ELSE LET first == CHOOSE i \in keep : \A j \in keep : i <= j
                     last  == CHOOSE i \in keep : \A j \in keep : j <= i
                 IN  SubSeq(s, first, last))

\* The least 0-based offset i >= from of s at which a character of the set
\* stands; len(s) when there is none.
FirstIn(s, from, set) ==
    LET cand == {i \in from..(Len(s) - 1) : s[i + 1] \in set}
    IN  IF cand = {} THEN Len(s)
        ELSE CHOOSE i \in cand : \A j \in cand : i <= j

\* The least 0-based offset i >= from of s at which no character of the set
\* stands, i.e. where a greedy repetition of that class stops.
FirstNotIn(s, from, set) ==
    LET cand == {i \in from..(Len(s) - 1) : s[i + 1] \notin set}
    IN  IF cand = {} THEN Len(s)
        ELSE CHOOSE i \in cand : \A j \in cand : i <= j

\* strings.Cut(s, "{"): the text before and after the first "{"
CutBrace(s0) ==
    With(s0, LAMBDA s :
        With(FirstIn(s, 0, {"{"}), LAMBDA at :
            IF at = Len(s)
            THEN [before |-> s, after |-> <<>>, found |-> FALSE]
            ELSE [before |-> Slice(s, 0, at),
                  after  |-> Slice(s, at + 1, Len(s)),
                  found  |-> TRUE]))

-----------------------------------------------------------------------------
(* cleanRawEntry                                                           *)

\* regexRemoveComments = (^|[^\\])%[^\n\r]*
\* The end offset (exclusive) of the match that starts at offset i, or -1.
\* The first alternative is the empty match of ^ at offset 0 followed by "%",
\* the second one character other than a backslash followed by "%".
CommentMatchEnd(s, i) ==
    LET eol(p) == FirstIn(s, p, {"\n", "\r"})
    IN  IF i = 0 /\ i < Len(s) /\ s[i + 1] = "%" THEN eol(i + 1)
        ELSE IF i + 1 < Len(s) /\ s[i + 1] # "\\" /\ s[i + 2] = "%"
             THEN eol(i + 2)
        ELSE -1

\* regexRemoveComments.ReplaceAllString(s, "") from offset i on
RECURSIVE RemoveCommentsFrom(_, _)
RemoveCommentsFrom(s, i) ==
    IF i >= Len(s) THEN <<>>
    ELSE With(CommentMatchEnd(s, i), LAMBDA e :
            IF e >= 0 THEN RemoveCommentsFrom(s, e)
            ELSE <<s[i + 1]>> \o RemoveCommentsFrom(s, i + 1))

regexRemoveComments(s0) == With(s0, LAMBDA s : RemoveCommentsFrom(s, 0))

\* strings.NewReplacer("\n", "", "\r", "", "\t", "").Replace
Replacer(s) == SelectSeq(s, LAMBDA c : c \notin {"\n", "\r", "\t"})

\* regexRemoveWhiteSpace = \s{2,}, ReplaceAllString(s, " ") from offset i on
RECURSIVE CollapseFrom(_, _)
CollapseFrom(s, i) ==
    IF i >= Len(s) THEN <<>>
    ELSE With(FirstNotIn(s, i, SpaceChars), LAMBDA e :
            IF e - i >= 2 THEN <<" ">> \o CollapseFrom(s, e)
            ELSE <<s[i + 1]>> \o CollapseFrom(s, i + 1))

regexRemoveWhiteSpace(s0) == With(s0, LAMBDA s : CollapseFrom(s, 0))

cleanRawEntry(input) ==
    LET trimmed  == TrimSpace(input)
        oneLine  == regexRemoveComments(trimmed)
        oneLine2 == Replacer(oneLine)
    IN  regexRemoveWhiteSpace(oneLine2)

-----------------------------------------------------------------------------
(* Errors                                                                  *)

NoErr == [type |-> "nil", msg |-> ""]
ErrParsingEntry(m) == [type |-> "ErrParsingEntry", msg |-> m]
ErrEmptyString(m) == [type |-> "ErrEmptyString", msg |-> m]
\* a Go run-time panic (index or slice bounds out of range)
Panic == [type |-> "panic", msg |-> "slice bounds out of range"]

-----------------------------------------------------------------------------
(* parseEntryType                                                          *)

\* parseEntryType without the check of line 140 that the type starts with "@"
parseEntryTypeNoAtCheck(bibtexEntry) ==
    IF Len(bibtexEntry) = 0
    THEN [val |-> <<>>, err |-> ErrEmptyString("The string is empty.")]
    ELSE With(TrimSpace(CutBrace(bibtexEntry).before), LAMBDA trimmedEntryType :
            IF Len(trimmedEntryType) = 0
            THEN [val |-> <<>>, err |-> ErrEmptyString("The string is empty.")]
            ELSE [val |-> Slice(trimmedEntryType, 1, Len(trimmedEntryType)),
                  err |-> NoErr])

parseEntryType(bibtexEntry) ==
    IF Len(bibtexEntry) = 0
    THEN [val |-> <<>>, err |-> ErrEmptyString("The string is empty.")]
    ELSE With(TrimSpace(CutBrace(bibtexEntry).before), LAMBDA trimmedEntryType :
            IF Len(trimmedEntryType) = 0
            THEN [val |-> <<>>, err |-> ErrEmptyString("The string is empty.")]
            ELSE IF trimmedEntryType[1] # "@"
            THEN [val |-> <<>>,
                  err |-> ErrParsingEntry("Cannot parse entry type from this entry")]
            ELSE [val |-> Slice(trimmedEntryType, 1, Len(trimmedEntryType)),
                  err |-> NoErr])

-----------------------------------------------------------------------------
(* The header/body split of parseFields                                    *)

\* Lines 153-167: the body between the first "{" and the closing "}", or the
\* error.
innerFieldOf(cleanBibtexEntry) ==
    With(CutBrace(cleanBibtexEntry), LAMBDA cut :
        With(TrimSpace(cut.after), LAMBDA innerField :
            IF ~cut.found
            THEN [val |-> <<>>, err |-> ErrParsingEntry("Could not split on '{'")]
            ELSE IF Len(innerField) = 0
            THEN [val |-> <<>>, err |-> ErrEmptyString("The string is empty.")]
            ELSE IF innerField[Len(innerField)] # "}"
            THEN [val |-> <<>>,
                  err |-> ErrParsingEntry(
                            "The last char in fields list should be '}'.")]
            ELSE [val |-> Slice(innerField, 0, Len(innerField) - 1),
                  err |-> NoErr]))

-----------------------------------------------------------------------------
(* parseFields                                                             *)

\* The classes [a-zA-Z\s] and [{"] of regexFindFieldNames
NameChars == Letters \cup SpaceChars
DelimChars == {"{", "\""}

\* regexFindFieldNames = ([a-zA-Z\s]+)=(?:\s*[{"]+)
\* The end offset (exclusive) of the match that starts at offset i, or -1.
\* Every repetition is greedy and the classes that follow one another are
\* disjoint, so the match at a given start is unique.
FieldNameMatchEnd(s, i) ==
    IF i < Len(s) /\ s[i + 1] \in NameChars
    THEN With(FirstNotIn(s, i, NameChars), LAMBDA j :
            IF j < Len(s) /\ s[j + 1] = "="
            THEN With(FirstNotIn(s, j + 1, SpaceChars), LAMBDA k :
                    IF k < Len(s) /\ s[k + 1] \in DelimChars
                    THEN FirstNotIn(s, k, DelimChars)
                    ELSE -1)
            ELSE -1)
    ELSE -1

\* regexFindFieldNames.FindAllStringIndex(s, -1) from offset i on:
\* the leftmost non-overlapping matches as pairs <<start, end>>.
RECURSIVE FindFieldNamesFrom(_, _)
FindFieldNamesFrom(s, i) ==
    IF i >= Len(s) THEN <<>>
    ELSE With(FieldNameMatchEnd(s, i), LAMBDA e :
            IF e >= 0 THEN << <<i, e>> >> \o FindFieldNamesFrom(s, e)
            ELSE FindFieldNamesFrom(s, i + 1))

regexFindFieldNames(s0) == With(s0, LAMBDA s : FindFieldNamesFrom(s, 0))

\* The outer delimiter check of parseFields (lines 195 and 226)
IsWrapped(vrunes) ==
    \/ vrunes[1] = "\"" /\ vrunes[Len(vrunes)] = "\""
    \/ vrunes[1] = "{" /\ vrunes[Len(vrunes)] = "}"

\* Lines 189-199 and 222-230: the cleaning of one non-empty trimmed value v.
\* kind is "ok" (val is the unwrapped value), "error" (the delimiter check
\* failed) or "panic" (an index or slice expression was out of range).
cleanFieldValue(v) ==
    With(IF v[Len(v)] = "," THEN TrimSpace(Slice(v, 0, Len(v) - 1)) ELSE v,
         LAMBDA vrunes :
            IF Len(vrunes) = 0 THEN [kind |-> "panic", val |-> <<>>]
            ELSE IF ~IsWrapped(vrunes) THEN [kind |-> "error", val |-> <<>>]
            ELSE IF Len(vrunes) < 2 THEN [kind |-> "panic", val |-> <<>>]
            ELSE [kind |-> "ok", val |-> Slice(vrunes, 1, Len(vrunes) - 1)])

\* fieldsHashMap[k] = v
MapPut(m, k, v) == [x \in DOMAIN m \cup {k} |-> IF x = k THEN v ELSE m[x]]

\* cleanFieldName without the strings.ToLower of line 208
cleanFieldNameNoLower(innerField, lo, hi) ==
    TrimSpace(SelectSeq(Slice(innerField, lo, hi - 1), LAMBDA c : c # "="))

\* Lines 205-208: the key made from the match [lo, hi)
cleanFieldName(innerField, lo, hi) ==
    ToLower(TrimSpace(SelectSeq(Slice(innerField, lo, hi - 1),
                                LAMBDA c : c # "=")))

InvalidDelimiter ==
    ErrParsingEntry("The first and last char in field value should either be {} or \"\"")

\* Lines 203-213: the second half of one loop iteration.
registerFieldName(innerField, match, st) ==
    With(cleanFieldName(innerField, match[1], match[2]), LAMBDA fieldName :
        IF fieldName # <<>>
        THEN [st EXCEPT !.fields = MapPut(st.fields, fieldName, <<>>),
                        !.previousFieldName = fieldName,
                        !.lastIndex = match[2] - 1]
        ELSE [st EXCEPT !.lastIndex = match[2] - 1])

\* Lines 181-200 and 218-231: the value text v of the field previousFieldName
\* is cleaned and stored; a failure is left in st.err.
storeFieldValue(v, st) ==
    With(cleanFieldValue(v), LAMBDA c :
        IF c.kind = "panic" THEN [st EXCEPT !.err = Panic]
        ELSE IF c.kind = "error" THEN [st EXCEPT !.err = InvalidDelimiter]
        ELSE [st EXCEPT !.fields =
                 MapPut(st.fields, st.previousFieldName, c.val)])

\* Lines 175-214: one iteration of the loop over the matches.
\* st = [fields, previousFieldName, lastIndex, err]; an iteration that
\* returns or panics leaves the outcome in st.err.
fieldsLoopBody(innerField, match, st) ==
    IF match[1] > st.lastIndex /\ st.previousFieldName # <<>>
    THEN With(TrimSpace(Slice(innerField, st.lastIndex, match[1])), LAMBDA v :
            IF Len(v) = 0 THEN st     \* continue
            ELSE With(storeFieldValue(v, st), LAMBDA st1 :
                    IF st1.err # NoErr THEN st1
                    ELSE registerFieldName(innerField, match, st1)))
    ELSE registerFieldName(innerField, match, st)

RECURSIVE fieldsLoop(_, _, _, _)
fieldsLoop(innerField, matches, n, st) ==
    IF n > Len(matches) \/ st.err # NoErr THEN st
    ELSE With(fieldsLoopBody(innerField, matches[n], st), LAMBDA st1 :
            fieldsLoop(innerField, matches, n + 1, st1))

\* Lines 215-234: the value after the last match.
fieldsRemainder(innerField, st) ==
    IF st.lastIndex < Len(innerField) /\ st.previousFieldName # <<>>
    THEN With(TrimSpace(Slice(innerField, st.lastIndex, Len(innerField))),
              LAMBDA v : IF Len(v) = 0 THEN st ELSE storeFieldValue(v, st))
    ELSE st

\* fieldsResult returning the map built so far together with the error
fieldsResultKeepPartial(st) ==
    [fields |-> st.fields, isNil |-> FALSE, err |-> st.err]

\* Line 235 and the error returns: the map (isNil when the Go map is nil)
\* and the error of the final loop state.
fieldsResult(st) ==
    IF st.err # NoErr
    THEN [fields |-> <<>>, isNil |-> TRUE, err |-> st.err]
    ELSE [fields |-> st.fields, isNil |-> FALSE, err |-> NoErr]

\* The result of parseFields; err = Panic when the call does not return.
parseFields(cleanBibtexEntry) ==
    With(innerFieldOf(cleanBibtexEntry), LAMBDA inner :
        IF inner.err # NoErr
        THEN [fields |-> <<>>, isNil |-> TRUE, err |-> inner.err]
        ELSE With(regexFindFieldNames(inner.val), LAMBDA matches :
             With(fieldsLoop(inner.val, matches, 1,
                             [fields |-> <<>>, previousFieldName |-> <<>>,
                              lastIndex |-> 0, err |-> NoErr]), LAMBDA st1 :
                IF st1.err # NoErr THEN fieldsResult(st1)
                ELSE With(fieldsRemainder(inner.val, st1), fieldsResult))))

-----------------------------------------------------------------------------
(* parseID                                                                 *)

\* idInnerFieldOf without the check of line 255 that the body ends with "}"
idInnerFieldOfNoBraceCheck(cleanBibtexEntry) ==
    With(CutBrace(cleanBibtexEntry), LAMBDA cut :
        With(TrimSpace(cut.after), LAMBDA innerField :
            IF ~cut.found
            THEN [val |-> <<>>, err |-> ErrParsingEntry("Could not split on '{'")]
            ELSE IF Len(innerField) = 0
            THEN [val |-> <<>>, err |-> ErrEmptyString("The string is empty.")]
            ELSE [val |-> Slice(innerField, 0, Len(innerField) - 1),
                  err |-> NoErr]))

\* Lines 244-258: the header/body split of parseID, written out a second
\* time in the source.
idInnerFieldOf(cleanBibtexEntry) ==
    With(CutBrace(cleanBibtexEntry), LAMBDA cut :
        With(TrimSpace(cut.after), LAMBDA innerField :
            IF ~cut.found
            THEN [val |-> <<>>, err |-> ErrParsingEntry("Could not split on '{'")]
            ELSE IF Len(innerField) = 0
            THEN [val |-> <<>>, err |-> ErrEmptyString("The string is empty.")]
            ELSE IF innerField[Len(innerField)] # "}"
            THEN [val |-> <<>>,
                  err |-> ErrParsingEntry(
                            "The last char in fields list should be '}'.")]
            ELSE [val |-> Slice(innerField, 0, Len(innerField) - 1),
                  err |-> NoErr]))

\* The class [a-zA-Z-:_0-9] of regexFindID
IDChars == Letters \cup Digits \cup {"-", ":", "_"}

\* regexFindID = (^|,)\s*[a-zA-Z-:_0-9]+\s*(,|$)
\* The end offset of what follows the first group when that starts at p, or -1.
IDTailEnd(s, p) ==
    With(FirstNotIn(s, p, SpaceChars), LAMBDA q :
    With(FirstNotIn(s, q, IDChars), LAMBDA r :
    With(FirstNotIn(s, r, SpaceChars), LAMBDA t :
        IF r = q THEN -1
        ELSE IF t < Len(s) /\ s[t + 1] = "," THEN t + 1
        ELSE IF t = Len(s) THEN t
        ELSE -1)))

\* The end offset (exclusive) of the match that starts at offset i, or -1:
\* the alternative ^ is tried before the alternative ",".
IDMatchEnd(s, i) ==
    With(IF i = 0 THEN IDTailEnd(s, 0) ELSE -1, LAMBDA viaStart :
        IF viaStart >= 0 THEN viaStart
        ELSE IF i < Len(s) /\ s[i + 1] = "," THEN IDTailEnd(s, i + 1)
        ELSE -1)

\* regexFindID.FindString(s): the leftmost match, "" when there is none
RECURSIVE FindIDFrom(_, _)
FindIDFrom(s, i) ==
    IF i >= Len(s) THEN <<>>
    ELSE With(IDMatchEnd(s, i), LAMBDA e :
            IF e >= 0 THEN Slice(s, i, e) ELSE FindIDFrom(s, i + 1))

regexFindID(s0) == With(s0, LAMBDA s : FindIDFrom(s, 0))

\* Lines 260-267: one leading and one trailing comma are removed
stripCommas(id0) ==
    With(IF Len(id0) > 0 /\ id0[1] = "," THEN Slice(id0, 1, Len(id0)) ELSE id0,
         LAMBDA id : IF Len(id) > 0 /\ id[Len(id)] = ","
                     THEN Slice(id, 0, Len(id) - 1) ELSE id)

parseID(cleanBibtexEntry) ==
    With(idInnerFieldOf(cleanBibtexEntry), LAMBDA inner :
        IF inner.err # NoErr THEN [val |-> <<>>, err |-> inner.err]
        ELSE With(regexFindID(inner.val), LAMBDA id :
             With(TrimSpace(stripCommas(id)), LAMBDA idTrimmed :
                IF idTrimmed = <<>>
                THEN [val |-> <<>>,
                      err |-> ErrParsingEntry("Could not find ID in BibTeX entry.")]
                ELSE [val |-> idTrimmed, err |-> NoErr])))

-----------------------------------------------------------------------------
(* Inputs                                                                  *)

\* Bounds of the input families
MaxCleanLen == 5
MaxHeaderLen == 5
MaxValLen == 3
MaxSegs == 3
MaxEntrySegs == 2
MaxBodyLen == 4
MaxSplitLen == 5
MaxWhiteLen == 4

\* All strings over the alphabet of at most n characters
StringsUpTo(alphabet, n) == UNION {[1..k -> alphabet] : k \in 0..n}

RECURSIVE Join(_, _)
\* strings.Join(segs, sep)
Join(segs, sep) ==
    IF Len(segs) = 0 THEN <<>>
    ELSE IF Len(segs) = 1 THEN segs[1]
    ELSE segs[1] \o sep \o Join(Tail(segs), sep)

\* A plain text
PlainText(t) == [kind |-> "text", text |-> t]

\* Raw texts given to the normalizer
CleanAlphabet == {"a", " ", "\n", "\t", "%", "\\"}
CleanInputs == {PlainText(t) : t \in StringsUpTo(CleanAlphabet, MaxCleanLen)}

\* Raw texts made of white space of every kind around a letter and a comment
WhiteAlphabet == {"a", " ", "\n", "\r", "\t", "\f", VerticalTab, "%"}
WhiteInputs == {PlainText(t) : t \in StringsUpTo(WhiteAlphabet, MaxWhiteLen)}

\* Texts given to the header parser
HeaderAlphabet == {"@", "a", "A", " ", "{", ","}
HeaderInputs == {PlainText(t) : t \in StringsUpTo(HeaderAlphabet, MaxHeaderLen)}

\* Texts given to both extractors: with and without "{", with empty, blank,
\* terminated and unterminated bodies
SplitAlphabet == {"@", "a", "{", "}", " ", ","}
SplitInputs == {PlainText(t) : t \in StringsUpTo(SplitAlphabet, MaxSplitLen)}

\* Field value texts: an opening delimiter followed by any short text, so
\* that every wrapped value "{" v "}" and "\"" v "\"" with Len(v) < MaxValLen
\* is among them, and so is every mismatched or unterminated one.
ValueAlphabet == {"a", "{", "}", "\"", ",", " "}
ValueTexts == {<<d>> \o w : d \in {"{", "\""},
                            w \in StringsUpTo(ValueAlphabet, MaxValLen)}

\* Entries with the key first and then one field, name eq value
FieldNames == {<<"n">>, <<"N", "m">>}
EqualSigns == {<<"=">>, <<" ", "=", " ">>}
OneFieldInputs ==
    {[kind |-> "onefield", name |-> n, eq |-> e, value |-> t] :
        n \in FieldNames, e \in EqualSigns, t \in ValueTexts}

\* Entries with an arbitrary short body
BodyAlphabet == {"N", "a", "=", "{", "}", "\"", ",", " "}
BodyInputs ==
    {[kind |-> "body", body |-> b] : b \in StringsUpTo(BodyAlphabet, MaxBodyLen)}

\* Body segments: a bare key, well-formed fields (one with commas inside the
\* value, one with an upper-case name), a field with a mismatched value, a
\* field whose value is a lone quote, and a field with an empty name.
KeySegment == <<"k", "1">>
GoodSegments ==
    { <<"n", "=", "{", "a", "}">>,
      <<"m", " ", "=", " ", "\"", "b", "\"">>,
      <<"N", "=", "{", "a", ",", " ", "b", ",", " ", "c", "}">> }
BadSegments ==
    { <<"x", "=", "{", "a", "\"">>,
      <<"q", "=", "\"">>,
      <<" ", "=", "{", "c", "}">> }
Segments == {KeySegment} \cup GoodSegments \cup BadSegments

SegmentLists(n) == UNION {[1..k -> Segments] : k \in 0..n}

Separators == {<<",">>, <<",", " ">>}

\* Entries made of comma-separated segments
SegmentInputs ==
    {[kind |-> "segments", segs |-> sg, sep |-> sp] :
        sg \in SegmentLists(MaxSegs), sp \in Separators}

\* Raw entries given to ParseNewEntry: an optional comment line or blank,
\* a header, the opening brace or none, a body, the closing brace or none.
EntryLeads == {<<>>, <<"%", "c", "\n">>, <<" ", "\n">>}
EntryHeaders == {<<"@", "a">>, <<"@", " ", "a">>, <<"a">>, <<" ">>, <<>>}
EntryInputs ==
    {[kind |-> "entry", lead |-> l, head |-> h, open |-> o, segs |-> sg,
      close |-> c] :
        l \in EntryLeads, h \in EntryHeaders,
        o \in {<<"{">>, <<>>}, c \in {<<"}">>, <<>>},
        sg \in SegmentLists(MaxEntrySegs)}

\* The text of an input
Render(g) ==
    CASE g.kind = "text" -> g.text
      [] g.kind = "onefield" ->
            <<"@", "a", "{", "k", "1", ",">> \o g.name \o g.eq \o g.value
                \o <<"}">>
      [] g.kind = "body" -> <<"@", "a", "{">> \o g.body \o <<"}">>
      [] g.kind = "segments" ->
            <<"@", "a", "{">> \o Join(g.segs, g.sep) \o <<"}">>
      [] g.kind = "entry" ->
            g.lead \o g.head \o g.open \o Join(g.segs, <<",">>) \o g.close

-----------------------------------------------------------------------------
(* State                                                                   *)

NilEntry == [EntryType |-> <<>>, Key |-> <<>>, RawEntry |-> <<>>,
             CleanEntry |-> <<>>, Fields |-> <<>>, FieldsNil |-> TRUE]

InitCall(position, inputs) ==
    /\ given \in inputs
    /\ raw = Render(given)
    /\ pc = position
    /\ cleanEntry = <<>>
    /\ newEntry = NilEntry
    /\ err = NoErr
    /\ debugLog = <<>>
    /\ rets = <<>>

-----------------------------------------------------------------------------
(* ParseNewEntry, statement by statement                                   *)

\* returnEmpty with the error type of the header parser
returnEmptyAsEmptyString ==
    [entry |-> NilEntry, entryNil |-> TRUE,
     err |-> ErrEmptyString("The string is empty.")]

\* Line 84: return nil, &ErrParsingEntry{...}
returnEmpty ==
    [entry |-> NilEntry, entryNil |-> TRUE,
     err |-> ErrParsingEntry("Entry is empty after cleaning.")]

\* Line 90: return nil, err
returnHeaderError(e) == [entry |-> NilEntry, entryNil |-> TRUE, err |-> e]

\* returnEntry handing the last extraction error to the caller
returnEntryWithError(entry, e) == [entry |-> entry, entryNil |-> FALSE, err |-> e]

\* Line 103: return newEntry, nil; e is the err that is not returned
returnEntry(entry, e) == [entry |-> entry, entryNil |-> FALSE, err |-> NoErr]

\* Lines 77-86
PNE_Clean ==
    /\ pc = "clean"
    /\ cleanEntry' = cleanRawEntry(raw)
    /\ IF Len(cleanEntry') = 0
       THEN /\ rets' = Append(rets, returnEmpty)
            /\ newEntry' = [newEntry EXCEPT !.RawEntry = raw]
            /\ pc' = "done"
       ELSE /\ newEntry' = [newEntry EXCEPT !.RawEntry = raw,
                                            !.CleanEntry = cleanEntry']
            /\ rets' = rets
            /\ pc' = "type"
    /\ UNCHANGED <<given, raw, err, debugLog>>

\* Lines 87-92
PNE_ParseEntryType ==
    /\ pc = "type"
    /\ LET r == parseEntryType(cleanEntry)
       IN  /\ err' = r.err
           /\ IF r.err # NoErr
              THEN /\ rets' = Append(rets, returnHeaderError(r.err))
                   /\ pc' = "done"
                   /\ newEntry' = newEntry
              ELSE /\ newEntry' = [newEntry EXCEPT !.EntryType = r.val]
                   /\ pc' = "fields"
                   /\ rets' = rets
    /\ UNCHANGED <<given, raw, cleanEntry, debugLog>>

\* Lines 93-97; a panic in parseFields ends the program
PNE_ParseFields ==
    /\ pc = "fields"
    /\ LET r == parseFields(cleanEntry)
       IN  IF r.err = Panic
           THEN /\ pc' = "panic"
                /\ UNCHANGED <<newEntry, err, debugLog>>
           ELSE /\ newEntry' = [newEntry EXCEPT !.Fields = r.fields,
                                                !.FieldsNil = r.isNil]
                /\ err' = r.err
                /\ debugLog' = IF r.err # NoErr THEN Append(debugLog, r.err)
                               ELSE debugLog
                /\ pc' = "id"
    /\ UNCHANGED <<given, raw, cleanEntry, rets>>

\* Lines 98-103
PNE_ParseID ==
    /\ pc = "id"
    /\ LET r == parseID(cleanEntry)
       IN  /\ newEntry' = [newEntry EXCEPT !.Key = r.val]
           /\ err' = r.err
           /\ debugLog' = IF r.err # NoErr THEN Append(debugLog, r.err)
                          ELSE debugLog
           /\ rets' = Append(rets, returnEntry(newEntry', r.err))
    /\ pc' = "done"
    /\ UNCHANGED <<given, raw, cleanEntry>>

Init == InitCall("clean", EntryInputs)

Next == PNE_Clean \/ PNE_ParseEntryType \/ PNE_ParseFields \/ PNE_ParseID

Spec == Init /\ [][Next]_vars

-----------------------------------------------------------------------------
(* The normalizer, applied once and then to its own output                 *)

CleanFirst ==
    /\ pc = "clean1"
    /\ rets' = Append(rets, cleanRawEntry(raw))
    /\ pc' = "clean2"
    /\ UNCHANGED <<given, raw, cleanEntry, newEntry, err, debugLog>>

CleanSecond ==
    /\ pc = "clean2"
    /\ rets' = Append(rets, cleanRawEntry(rets[1]))
    /\ pc' = "done"
    /\ UNCHANGED <<given, raw, cleanEntry, newEntry, err, debugLog>>

InitClean == InitCall("clean1", CleanInputs \cup WhiteInputs)
NextClean == CleanFirst \/ CleanSecond
SpecClean == InitClean /\ [][NextClean]_vars

-----------------------------------------------------------------------------
(* The header parser, the field extractor and the key extractor on their   *)
(* own                                                                     *)

CallParseEntryType ==
    /\ pc = "call"
    /\ rets' = Append(rets, parseEntryType(raw))
    /\ pc' = "done"
    /\ UNCHANGED <<given, raw, cleanEntry, newEntry, err, debugLog>>

InitHeader == InitCall("call", HeaderInputs)
SpecHeader == InitHeader /\ [][CallParseEntryType]_vars

CallParseFields ==
    /\ pc = "call"
    /\ rets' = Append(rets, parseFields(raw))
    /\ pc' = "done"
    /\ UNCHANGED <<given, raw, cleanEntry, newEntry, err, debugLog>>

InitFields ==
    InitCall("call", OneFieldInputs \cup SegmentInputs \cup BodyInputs)
SpecFields == InitFields /\ [][CallParseFields]_vars

CallParseID ==
    /\ pc = "call"
    /\ rets' = Append(rets, parseID(raw))
    /\ pc' = "done"
    /\ UNCHANGED <<given, raw, cleanEntry, newEntry, err, debugLog>>

InitID == InitCall("call", SegmentInputs)
SpecID == InitID /\ [][CallParseID]_vars

\* The field extractor and the key extractor on the same text, as lines 94
\* and 98 of ParseNewEntry call them
BothParseFields ==
    /\ pc = "both"
    /\ rets' = Append(rets, parseFields(raw))
    /\ pc' = "bothID"
    /\ UNCHANGED <<given, raw, cleanEntry, newEntry, err, debugLog>>

BothParseID ==
    /\ pc = "bothID"
    /\ rets' = Append(rets, parseID(raw))
    /\ pc' = "done"
    /\ UNCHANGED <<given, raw, cleanEntry, newEntry, err, debugLog>>

InitBoth == InitCall("both", SplitInputs)
NextBoth == BothParseFields \/ BothParseID
SpecBoth == InitBoth /\ [][NextBoth]_vars

-----------------------------------------------------------------------------
(* Vocabulary of the properties                                            *)

\* The text before the first "{" of s (all of s when it has none)
HeaderText(s) ==
    LET braces == {i \in 1..Len(s) : s[i] = "{"}
    IN  IF braces = {} THEN s
        ELSE SubSeq(s, 1, (CHOOSE i \in braces : \A j \in braces : i <= j) - 1)

IsBlank(s) == \A i \in 1..Len(s) : IsSpace(s[i])

\* The first character of s that is not whitespace (s is not blank)
FirstVisible(s) ==
    s[CHOOSE i \in 1..Len(s) : ~IsSpace(s[i]) /\ \A j \in 1..(i - 1) : IsSpace(s[j])]

\* The entry type written in s: its header without the "@" and without
\* surrounding whitespace
RECURSIVE StripSpaces(_)
StripSpaces(s) ==
    IF s = <<>> THEN s
    ELSE IF IsSpace(s[1]) THEN StripSpaces(Tail(s))
    ELSE IF IsSpace(s[Len(s)]) THEN StripSpaces(SubSeq(s, 1, Len(s) - 1))
    ELSE s

WrittenEntryType(s) == StripSpaces(Tail(StripSpaces(HeaderText(s))))

\* The error kinds of the error taxonomy
IsEmptyInput(e) == e.type = "ErrEmptyString"
IsMalformedHeader(e) ==
    /\ e.type = "ErrParsingEntry"
    /\ e.msg \in {"Cannot parse entry type from this entry",
                  "Could not split on '{'"}
IsInvalidFieldDelimiter(e) == e = InvalidDelimiter
IsUnterminatedEntry(e) ==
    e = ErrParsingEntry("The last char in fields list should be '}'.")
IsMissingBrace(e) == e = ErrParsingEntry("Could not split on '{'")

\* s has a "{"
HasBrace(s) == \E i \in 1..Len(s) : s[i] = "{"

\* The trimmed body of s: the text after the first "{" of s, without
\* surrounding whitespace
BodyText(s) == StripSpaces(SubSeq(s, Len(HeaderText(s)) + 2, Len(s)))

\* wrap(v, d): v inside one pair of delimiters
Wrap(v, d) ==
    IF d = "{" THEN <<"{">> \o v \o <<"}">> ELSE <<"\"">> \o v \o <<"\"">>

\* The characters of s that are not whitespace, in order
Visible(s) == SelectSeq(s, LAMBDA c : ~IsSpace(c))

\* s without its comments: each "%" that is not preceded by a backslash is
\* removed together with the rest of its physical line, from index i on.
RECURSIVE WithoutComments(_, _)
WithoutComments(s, i) ==
    IF i > Len(s) THEN <<>>
    ELSE IF s[i] = "%" /\ (i = 1 \/ s[i - 1] # "\\")
    THEN LET ends == {k \in i..Len(s) : s[k] \in {"\n", "\r"}}
         IN  IF ends = {} THEN <<>>
             ELSE WithoutComments(s, CHOOSE k \in ends : \A j \in ends : k <= j)
    ELSE <<s[i]>> \o WithoutComments(s, i + 1)

\* The field a well-formed segment states
SegmentKey(seg) ==
    CASE seg = <<"n", "=", "{", "a", "}">> -> <<"n">>
      [] seg = <<"m", " ", "=", " ", "\"", "b", "\"">> -> <<"m">>
      [] seg = <<"N", "=", "{", "a", ",", " ", "b", ",", " ", "c", "}">> -> <<"n">>
SegmentValue(seg) ==
    CASE seg = <<"n", "=", "{", "a", "}">> -> <<"a">>
      [] seg = <<"m", " ", "=", " ", "\"", "b", "\"">> -> <<"b">>
      [] seg = <<"N", "=", "{", "a", ",", " ", "b", ",", " ", "c", "}">> ->
            <<"a", ",", " ", "b", ",", " ", "c">>
MismatchedSegment == <<"x", "=", "{", "a", "\"">>
\* The mapping stated by the well-formed segments of segs: of two fields of
\* one name the later one counts
StatedFields(segs) ==
    LET fieldsAt == {i \in DOMAIN segs : segs[i] \in GoodSegments}
        lastOf(k) == CHOOSE i \in fieldsAt :
                        /\ SegmentKey(segs[i]) = k
                        /\ \A j \in fieldsAt : SegmentKey(segs[j]) = k => j <= i
    IN  [k \in {SegmentKey(segs[i]) : i \in fieldsAt} |->
            SegmentValue(segs[lastOf(k)])]
\* The field whose name is empty after cleaning
EmptyNameSegment == <<" ", "=", "{", "c", "}">>

\* A value text after trimming and stripping one trailing comma
StrippedValue(t) ==
    LET a == StripSpaces(t)
    IN  IF a # <<>> /\ a[Len(a)] = "," THEN StripSpaces(SubSeq(a, 1, Len(a) - 1))
        ELSE a

\* t starts and ends with a matching pair of delimiters
IsMatchingPair(t) ==
    /\ Len(t) >= 2
    /\ \/ t[1] = "\"" /\ t[Len(t)] = "\""
       \/ t[1] = "{" /\ t[Len(t)] = "}"

-----------------------------------------------------------------------------
(* Properties                                                              *)

\* C1 (as claimed): for every field name n and non-empty value v, parseFields
\* on a body containing n = {v} or n = "v" returns without error a mapping
\* in which the (lower-cased) key n maps to exactly v.
C1_OneLayerRemoved ==
    (pc = "done" /\ given.kind = "onefield") =>
        \A d \in {"{", "\""} :
            \A v \in StringsUpTo(ValueAlphabet, MaxValLen - 1) \ {<<>>} :
                given.value = Wrap(v, d) =>
                    /\ rets[1].err = NoErr
                    /\ ~rets[1].isNil
                    /\ ToLower(given.name) \in DOMAIN rets[1].fields
                    /\ rets[1].fields[ToLower(given.name)] = v

\* C2 (as claimed): when exactly one segment of the body is a bare key and
\* every other segment is a well-formed name = value field, parseID returns
\* that key, wherever it stands.
C2_KeyAnyPosition ==
    (/\ pc = "done"
     /\ given.kind = "segments"
     /\ Cardinality({i \in DOMAIN given.segs : given.segs[i] = KeySegment}) = 1
     /\ \A i \in DOMAIN given.segs :
            given.segs[i] \in GoodSegments \cup {KeySegment})
        => rets[1] = [val |-> KeySegment, err |-> NoErr]

\* C3 (as claimed): when header parsing succeeds and field extraction or key
\* extraction fails, ParseNewEntry returns a Record with the entry type set
\* together with the non-nil error of the failed extraction.
C3_ErrorReturned ==
    (pc = "done" /\ debugLog # <<>>) =>
        /\ ~rets[1].entryNil
        /\ rets[1].entry.EntryType = Tail(StripSpaces(HeaderText(cleanEntry)))
        /\ rets[1].err # NoErr
        /\ rets[1].err \in Range(debugLog)

\* C3 (amended): when header parsing succeeds and field extraction or key
\* extraction returns an error, ParseNewEntry returns a Record with the
\* entry type set and a nil error; the errors are only written to the log.
C3_ErrorOnlyLogged ==
    (pc = "done" /\ debugLog # <<>>) =>
        /\ ~rets[1].entryNil
        /\ rets[1].entry.EntryType = Tail(StripSpaces(HeaderText(cleanEntry)))
        /\ rets[1].err = NoErr
        /\ \A i \in DOMAIN debugLog : debugLog[i] # NoErr

\* C3 witness: an entry with a good header whose key extraction failed
C3_Witness ==
    /\ pc = "done"
    /\ debugLog # <<>>
    /\ debugLog[Len(debugLog)].msg = "Could not find ID in BibTeX entry."
    /\ ~rets[1].entryNil

\* C4 (as claimed): when a field's value fails the delimiter check, the
\* Record returned by ParseNewEntry carries the entry type and every field
\* parsed before the failing one.
C4_FieldsBeforeFailureKept ==
    (/\ pc = "done"
     /\ given.kind = "entry"
     /\ given.open = <<"{">>
     /\ given.close = <<"}">>
     /\ \E e \in Range(debugLog) : IsInvalidFieldDelimiter(e))
        => /\ ~rets[1].entryNil
           /\ rets[1].entry.EntryType = Tail(StripSpaces(HeaderText(cleanEntry)))
           /\ \A i \in DOMAIN given.segs :
                (/\ given.segs[i] = MismatchedSegment
                 /\ \A j \in 1..(i - 1) : given.segs[j] \in GoodSegments)
                    => \A j \in 1..(i - 1) :
                        /\ ~rets[1].entry.FieldsNil
                        /\ SegmentKey(given.segs[j]) \in DOMAIN rets[1].entry.Fields

\* C4 (amended): when a field's value fails the delimiter check, the Record
\* returned by ParseNewEntry carries the entry type and a nil field mapping:
\* no field is kept, the ones parsed before the failing one included.
C4_NoFieldsKept ==
    (/\ pc = "done"
     /\ \E e \in Range(debugLog) : IsInvalidFieldDelimiter(e))
        => /\ ~rets[1].entryNil
           /\ rets[1].entry.EntryType = Tail(StripSpaces(HeaderText(cleanEntry)))
           /\ rets[1].entry.FieldsNil
           /\ DOMAIN rets[1].entry.Fields = {}

\* C4 witness: a well-formed field followed by a field with a mismatched value
C4_Witness ==
    /\ pc = "done"
    /\ given.kind = "entry"
    /\ given.open = <<"{">>
    /\ given.close = <<"}">>
    /\ Len(given.segs) = 2
    /\ given.segs[1] \in GoodSegments
    /\ given.segs[2] = MismatchedSegment
    /\ \E e \in Range(debugLog) : IsInvalidFieldDelimiter(e)
    /\ ~rets[1].entryNil

\* C5 (as claimed): when parseEntryType succeeds, the entry type is the
\* header with the leading "@" stripped and surrounding whitespace trimmed:
\* it does not start with "@" and has no leading or trailing whitespace.
C5_EntryTypeTrimmed ==
    (pc = "done" /\ rets[1].err = NoErr) =>
        LET t == rets[1].val
        IN  /\ t = WrittenEntryType(raw)
            /\ t # <<>> => /\ t[1] # "@"
                           /\ ~IsSpace(t[1])
                           /\ ~IsSpace(t[Len(t)])

\* C6 (as claimed): normalizing the normalizer's output returns it unchanged.
C6_Idempotent == pc = "done" => rets[2] = rets[1]

\* C7 (as claimed): the normalizer keeps, in order, exactly the
\* non-whitespace characters that lie outside the comments, a comment being
\* an unescaped "%" and the rest of its physical line.
C7_OnlyCommentsRemoved ==
    pc \in {"clean2", "done"} => Visible(rets[1]) = Visible(WithoutComments(raw, 1))

\* C8 (as claimed): a field value that, trimmed and without one trailing
\* comma, does not start and end with a matching pair of delimiters makes
\* parseFields fail with the invalid-delimiter error and return no mapping.
C8_MismatchRejected ==
    (/\ pc = "done"
     /\ given.kind = "onefield"
     /\ ~IsMatchingPair(StrippedValue(given.value)))
        => /\ IsInvalidFieldDelimiter(rets[1].err)
           /\ rets[1].isNil

\* C9: parseEntryType fails with ErrEmptyString exactly when the text, or
\* its trimmed header, is empty; with the malformed-header ErrParsingEntry
\* exactly when the trimmed header is not empty and does not start with "@";
\* and succeeds in every other case.
C9_HeaderErrors ==
    pc = "done" =>
        LET blank == IsBlank(HeaderText(raw))
            e == rets[1].err
        IN  /\ IsEmptyInput(e) <=> blank
            /\ IsMalformedHeader(e) <=> (~blank /\ FirstVisible(HeaderText(raw)) # "@")
            /\ e = NoErr <=> (~blank /\ FirstVisible(HeaderText(raw)) = "@")

\* C9 witness: a header that is not empty and does not start with "@"
C9_Witness ==
    /\ pc = "done"
    /\ ~IsBlank(HeaderText(raw))
    /\ FirstVisible(HeaderText(raw)) = "a"
    /\ IsMalformedHeader(rets[1].err)

\* C10 (as claimed): ParseNewEntry returns no Record and a non-nil error when
\* the normalized text is empty or its header is malformed; the error is
\* ErrEmptyString for a normalized text that is empty or has a blank header,
\* and the malformed-header error when the header does not start with "@".
C10_HeaderErrorKinds ==
    (pc = "done" /\ (IsBlank(HeaderText(cleanEntry))
                        \/ FirstVisible(HeaderText(cleanEntry)) # "@")) =>
        /\ rets[1].entryNil
        /\ rets[1].err # NoErr
        /\ IF IsBlank(HeaderText(cleanEntry))
           THEN IsEmptyInput(rets[1].err)
           ELSE IsMalformedHeader(rets[1].err)

\* C10 (amended): ParseNewEntry returns no Record and a non-nil error when
\* the normalized text is empty or its header is malformed; for an empty
\* normalized text the error is ParseNewEntry's own ErrParsingEntry "Entry
\* is empty after cleaning.", for a blank header the header parser's
\* ErrEmptyString, and for a header that does not start with "@" the header
\* parser's malformed-header error.
C10_EmptyIsParsingError ==
    (pc = "done" /\ (IsBlank(HeaderText(cleanEntry))
                        \/ FirstVisible(HeaderText(cleanEntry)) # "@")) =>
        /\ rets[1].entryNil
        /\ rets[1].err # NoErr
        /\ IF cleanEntry = <<>>
           THEN rets[1].err = ErrParsingEntry("Entry is empty after cleaning.")
           ELSE IF IsBlank(HeaderText(cleanEntry))
           THEN IsEmptyInput(rets[1].err)
           ELSE IsMalformedHeader(rets[1].err)

\* C10 witness: a raw entry that is not empty and normalizes to nothing
C10_Witness ==
    /\ pc = "done"
    /\ raw # <<>>
    /\ cleanEntry = <<>>
    /\ rets[1].entryNil

\* C11: every key of the mapping returned by a successful parseFields is
\* lower-case (holds no upper-case letter) and holds no "=".
C11_KeysLowerNoEquals ==
    (pc = "done" /\ rets[1].err = NoErr) =>
        \A k \in DOMAIN rets[1].fields :
            \A i \in DOMAIN k : k[i] \notin Range(UpperLetters) \cup {"="}

\* C11 witness: a field written with an upper-case name and blanks around
\* the "=" is returned under the lower-cased name
C11_Witness ==
    /\ pc = "done"
    /\ given.kind = "onefield"
    /\ given.name = <<"N", "m">>
    /\ given.eq = <<" ", "=", " ">>
    /\ rets[1].err = NoErr
    /\ <<"n", "m">> \in DOMAIN rets[1].fields

\* C12: on every text parseFields and parseID fail with the missing-brace
\* MalformedHeader error exactly when the text has no "{", with EmptyInput
\* exactly when it has one and the trimmed body is empty, and with
\* UnterminatedEntry exactly when the trimmed body is not empty and does not
\* end with "}".
C12_SameSplitErrors ==
    pc = "done" =>
        \A e \in {rets[1].err, rets[2].err} :
            /\ IsMissingBrace(e) <=> ~HasBrace(raw)
            /\ IsEmptyInput(e) <=> (HasBrace(raw) /\ BodyText(raw) = <<>>)
            /\ IsUnterminatedEntry(e) <=>
                    /\ HasBrace(raw)
                    /\ BodyText(raw) # <<>>
                    /\ BodyText(raw)[Len(BodyText(raw))] # "}"

\* C12 witness: a text with a "{" whose body is not empty and does not end
\* with "}", on which both extractors have failed
C12_Witness ==
    /\ pc = "done"
    /\ HasBrace(raw)
    /\ BodyText(raw) # <<>>
    /\ BodyText(raw)[Len(BodyText(raw))] = "a"
    /\ IsUnterminatedEntry(rets[1].err)
    /\ IsUnterminatedEntry(rets[2].err)

\* C13 (as claimed): the normalizer's output holds no line break, no
\* carriage return and no tab, and no two adjacent whitespace characters.
C13_CanonicalLine ==
    pc \in {"clean2", "done"} =>
        /\ \A i \in DOMAIN rets[1] : rets[1][i] \notin {"\n", "\r", "\t"}
        /\ \A i \in 1..(Len(rets[1]) - 1) :
                ~(IsSpace(rets[1][i]) /\ IsSpace(rets[1][i + 1]))

\* C14 (as claimed): a field whose name is empty after cleaning is skipped:
\* parseFields inserts no key for it and returns the keys and values it
\* returns for the body without that field.
C14_EmptyNameSkipped ==
    (/\ pc = "done"
     /\ given.kind = "segments"
     /\ EmptyNameSegment \in Range(given.segs)
     /\ \A i \in DOMAIN given.segs :
            given.segs[i] \in GoodSegments \cup {KeySegment, EmptyNameSegment})
        => LET others == SelectSeq(given.segs, LAMBDA x : x # EmptyNameSegment)
               absent == parseFields(Render([given EXCEPT !.segs = others]))
           IN  absent.err = NoErr =>
                   /\ rets[1].err = NoErr
                   /\ <<>> \notin DOMAIN rets[1].fields
                   /\ rets[1].fields = absent.fields

\* C15 (as claimed): parseFields returns on every text, with a mapping or
\* with an error; no index or slice expression of it is out of range.
C15_NoPanic ==
    pc = "done" =>
        /\ rets[1].err # Panic
        /\ rets[1].err.type \in {"nil", "ErrParsingEntry", "ErrEmptyString"}
        /\ rets[1].isNil <=> rets[1].err # NoErr

\* C16 (as claimed): when one segment of the body is the bare key and every
\* other segment is a well-formed name = value field, parseFields returns
\* without error the mapping of all these fields, whether the key is the
\* first, a middle or the last segment.
C16_FieldsAnyKeyPosition ==
    (/\ pc = "done"
     /\ given.kind = "segments"
     /\ Cardinality({i \in DOMAIN given.segs : given.segs[i] = KeySegment}) = 1
     /\ \A i \in DOMAIN given.segs :
            given.segs[i] \in GoodSegments \cup {KeySegment})
        => /\ rets[1].err = NoErr
           /\ ~rets[1].isNil
           /\ rets[1].fields = StatedFields(given.segs)

====
